---------------------------- MODULE Spec2Model ----------------------------
(***************************************************************************)
(* Model of huawei_solar.AsyncHuaweiSolar (src/src/huawei_solar/           *)
(* huawei_solar.py): the batched register read get_multiple, the wire      *)
(* reader _read_registers with its backoff retry, and the communication    *)
(* lock with its cooldown sleep.                                           *)
(*                                                                         *)
(* The callers are asyncio tasks of one event loop.  A task runs alone     *)
(* from one suspension point to the next; `running` is the task that holds *)
(* the loop.  The transport, the clock and the other tasks act only while  *)
(* no task runs.                                                           *)
(***************************************************************************)
EXTENDS Integers, Sequences, FiniteSets

\* ------------------------------------------------------------------ bounds

\* Number of concurrent callers of one session: one in the lock and two
\* queued behind it.
NumCallers == 3
\* Longest list of names a caller passes to get_multiple.
MaxNames == 2
\* Clock resolution: ticks per second.
TicksPerSecond == 100
\* Largest slave id a session or a call uses.
MaxSlave == 1

\* --------------------------------------------------------------- constants

\* DEFAULT_SLAVE
DEFAULT_SLAVE == 0
\* Seconds between two attempts (interval of backoff.constant), in ticks.
DEFAULT_WAIT == 2 * TicksPerSecond
\* Seconds one read_holding_registers call may take, in ticks.
DEFAULT_TIMEOUT == 5 * TicksPerSecond
\* 0.01 seconds slept after an exchange, in ticks.
DEFAULT_COOLDOWN_TIME == TicksPerSecond \div 100
\* max_tries of backoff.on_exception
max_tries == 5
\* Largest register distance get_multiple compares against.
MAX_GAP == 64

Callers == 1 .. NumCallers
SlaveIds == 0 .. MaxSlave
\* The `slave` argument of a call: {} for None, {s} for the id s.
NoSlave == {}
SlaveArgs == {NoSlave} \cup {{s} : s \in SlaveIds}
None == [register |-> -1, length |-> 0]

\* A sample of the register table: A and B of the specification's scenario,
\* C overlapping B, and D at a gap of 64 words behind C, 65 behind B and 67
\* behind A.
\* The unit of an entry is a unit's name or one of "absent", "callable",
\* "dict".
REGISTERS ==
    [n \in {"A", "B", "C", "D", "time_zone", "storage_unit_1_product_model"} |->
        CASE n = "A" -> [register |-> 0, length |-> 1, unit |-> "W"]
          [] n = "B" -> [register |-> 1, length |-> 2, unit |-> "callable"]
          [] n = "C" -> [register |-> 2, length |-> 2, unit |-> "dict"]
          [] n = "D" -> [register |-> 68, length |-> 1, unit |-> "absent"]
          [] n = "time_zone" ->
                 [register |-> 70, length |-> 1, unit |-> "min"]
          [] n = "storage_unit_1_product_model" ->
                 [register |-> 72, length |-> 1, unit |-> "dict"]]

\* Every name a caller may pass; "X" is a name the table does not hold.
Names == DOMAIN REGISTERS \cup {"X"}

RECURSIVE SeqsUpTo(_, _)
SeqsUpTo(S, n) ==
    IF n = 0 THEN {<< >>}
    ELSE LET shorter == SeqsUpTo(S, n - 1)
         IN  shorter \cup {Append(s, x) : s \in {t \in shorter : Len(t) = n - 1}, x \in S}

\* The lists one caller alone is tried with: every list up to MaxNames names.
NameLists == SeqsUpTo(Names, MaxNames)

\* The lists concurrent callers pass: the scenario's batch, accepted, and
\* two rejected ones: the empty list and a list with a name the table does
\* not hold.
Requests == {<< "A", "B" >>, << >>, << "X" >>}

Min(a, b) == IF a < b THEN a ELSE b

\* The 16-bit word the inverter holds at register address a.
DeviceWord(a) == (a + 1) * 256 + (255 - a)

\* ------------------------------------------------------------------- state

VARIABLES
    connected,   \* self._client.connected
    locked,      \* self._communication_lock: _locked
    waiters,     \* self._communication_lock: _waiters, in arrival order
    woken,       \* waiters whose future release() has completed
    running,     \* the task that holds the event loop: {} or {c}
    pc,          \* where each caller's get_multiple stands
    names,       \* the names each caller passed
    args,        \* the (register, length) passed to _read_registers
    tries,       \* backoff's count of invocations of _do_read
    wire,        \* the read_holding_registers calls issued, in order
    timeouts,    \* asyncio.TimeoutError raised to this call so far
    waits,       \* backoff sleeps started
    slept,       \* sum of the backoff intervals slept, in ticks
    response,    \* what the transport answered last
    outcome,     \* how the call ended
    timer,       \* ticks left of the pending sleep or read timeout
    sinceWire,   \* ticks since a wire read last ended, up to the cooldown
    slave,       \* self.slave
    slaveArg,    \* the `slave` argument of each caller's call
    units,       \* the unit sent with each wire read of each caller
    api,         \* the public method each caller called
    result,      \* the list get_multiple built
    trace,       \* per decoded field: bytes skipped, cursor before and after
    returned,    \* what the public method returned to the caller
    createPc,    \* where AsyncHuaweiSolar.create stands
    client,      \* create's local `client`
    stopped,     \* whether client.stop() was called
    time_zone,   \* self.time_zone (<< >> for None)
    battery_type,\* self.battery_type (<< >> for None)
    createError, \* the exception create raised
    acquired,    \* times each caller took the lock
    exchanges    \* times each caller's _read_registers invoked the retried _do_read

vars == << connected, locked, waiters, woken, running, pc, names, args, tries,
           wire, timeouts, waits, slept, response, outcome, timer, sinceWire,
           slave, slaveArg, units, api, result, trace, returned, acquired,
           exchanges, createPc, client, stopped, time_zone, battery_type,
           createError >>

createVars == << createPc, client, stopped, time_zone, battery_type,
                 createError >>

slaveVars == << slave, slaveArg, units >>

decodeVars == << result, trace, returned >>

slotVars == << acquired, exchanges >>
lockVars == << locked, waiters, woken >>
countVars == << tries, wire, timeouts, waits, slept >>

\* ----------------------------------------------------------------- planner

\* REGISTERS.get(name)
REGISTERS_get(name) == IF name \in DOMAIN REGISTERS THEN REGISTERS[name] ELSE None

\* list(map(REGISTERS.get, names))
Resolve(ns) == [i \in 1 .. Len(ns) |-> REGISTERS_get(ns[i])]

\* (mutant) the comparison without the previous register's length.
NotIncreasing_NoLength(prev, cur) == prev.register > cur.register

\* The comparison that rejects a pair of neighbours as out of order.
NotIncreasing(prev, cur) == prev.register + prev.length > cur.register

\* register_distance, as get_multiple computes it.
register_distance(prev, cur) == prev.register + prev.length - cur.register

\* The loop `for idx in range(1, len(names))`, from position idx on
\* (positions count from 1 here): the first error it raises, or "none".
RECURSIVE CheckFrom(_, _)
CheckFrom(registers, idx) ==
    IF idx > Len(registers) THEN "none"
    ELSE IF NotIncreasing(registers[idx - 1], registers[idx]) THEN "order"
    ELSE IF register_distance(registers[idx - 1], registers[idx]) > MAX_GAP THEN "gap"
    ELSE CheckFrom(registers, idx + 1)

\* (mutant) the checks without the one for names the table does not hold.
Validate_NoLookupCheck(ns) ==
    IF Len(ns) = 0 THEN "empty" ELSE CheckFrom(Resolve(ns), 2)

\* The checks of get_multiple before it reads: the ValueError raised, or "none".
Validate(ns) ==
    IF Len(ns) = 0 THEN "empty"
    ELSE LET registers == Resolve(ns)
         IN  IF \E i \in 1 .. Len(ns) : registers[i] = None THEN "unknown"
             ELSE CheckFrom(registers, 2)

\* (mutant) the range without the last register's length.
total_length_NoLast(registers) ==
    registers[Len(registers)].register - registers[1].register

\* total_length
total_length(registers) ==
    registers[Len(registers)].register + registers[Len(registers)].length
        - registers[1].register

\* The arguments get_multiple passes to _read_registers.
ReadArgs(ns) ==
    LET registers == Resolve(ns)
    IN  [register |-> registers[1].register, length |-> total_length(registers)]

NoArgs == [register |-> -1, length |-> 0]

\* -------------------------------------------------------------------- Init

\* The session __init__ leaves, its default slave id being sl.
Constructed(sl) ==
    /\ slave = sl
    /\ slaveArg = [c \in Callers |-> NoSlave]
    /\ units = [c \in Callers |-> << >>]
    /\ connected \in BOOLEAN
    /\ locked = FALSE
    /\ waiters = << >>
    /\ woken = {}
    /\ running = {}
    /\ pc = [c \in Callers |-> "idle"]
    /\ names = [c \in Callers |-> << >>]
    /\ args = [c \in Callers |-> NoArgs]
    /\ tries = [c \in Callers |-> 0]
    /\ wire = [c \in Callers |-> << >>]
    /\ timeouts = [c \in Callers |-> 0]
    /\ waits = [c \in Callers |-> 0]
    /\ slept = [c \in Callers |-> 0]
    /\ response = [c \in Callers |-> "none"]
    /\ outcome = [c \in Callers |-> "none"]
    /\ timer = [c \in Callers |-> 0]
    /\ sinceWire = DEFAULT_COOLDOWN_TIME
    /\ api = [c \in Callers |-> "none"]
    /\ result = [c \in Callers |-> << >>]
    /\ trace = [c \in Callers |-> << >>]
    /\ returned = [c \in Callers |-> << >>]
    /\ acquired = [c \in Callers |-> 0]
    /\ exchanges = [c \in Callers |-> 0]

\* What create leaves when it has returned the session.
Created ==
    /\ createPc = "returned"
    /\ client = "client"
    /\ stopped = FALSE
    /\ time_zone = << DeviceWord(REGISTERS["time_zone"].register) >>
    /\ battery_type =
           << DeviceWord(REGISTERS["storage_unit_1_product_model"].register) >>
    /\ createError = "none"

\* A session with the default slave id.
Init == Constructed(DEFAULT_SLAVE) /\ Created

\* A session with any slave id.
InitSlave == \E sl \in SlaveIds : Constructed(sl) /\ Created

\* create is called: no client yet, the session's fields as __init__ will
\* set them.
InitCreate ==
    /\ Constructed(DEFAULT_SLAVE)
    /\ createPc = "start"
    /\ client = "None"
    /\ stopped = FALSE
    /\ time_zone = << >>
    /\ battery_type = << >>
    /\ createError = "none"

\* ------------------------------------------------------- the lock's pieces

\* (mutant) acquire() that does not look at the lock's state.
CanLockNow_Unchecked == TRUE

\* asyncio.Lock.acquire takes the lock at once only if it is free and no
\* waiter is queued.
CanLockNow == ~locked /\ waiters = << >>

\* asyncio.Lock.release: unlock and complete the first waiter's future.
Release ==
    /\ locked' = FALSE
    /\ waiters' = waiters
    /\ woken' = IF waiters # << >> THEN woken \cup {Head(waiters)} ELSE woken

\* (mutant) an exception that leaves the lock held, as acquire() and
\* release() without try/finally would.
Raise_KeepsLock(c, exc) ==
    /\ UNCHANGED << locked, waiters, woken >>
    /\ pc' = [pc EXCEPT ![c] = "done"]
    /\ outcome' = [outcome EXCEPT ![c] = exc]
    /\ timer' = [timer EXCEPT ![c] = 0]
    /\ running' = {}

\* An exception leaves _read_registers: `async with` releases the lock and
\* get_multiple passes the exception on to its caller.
Raise(c, exc) ==
    /\ Release
    /\ pc' = [pc EXCEPT ![c] = "done"]
    /\ outcome' = [outcome EXCEPT ![c] = exc]
    /\ timer' = [timer EXCEPT ![c] = 0]
    /\ running' = {}

\* ----------------------------------------------------------------- actions

\* get_multiple(names), called directly or by get: the checks and the
\* range; an accepted list goes on to _read_registers.
Call(c, ns, sl, how) ==
    /\ running = {}
    /\ pc[c] = "idle"
    /\ slaveArg' = [slaveArg EXCEPT ![c] = sl]
    /\ UNCHANGED << slave, units >>
    /\ api' = [api EXCEPT ![c] = how]
    /\ names' = [names EXCEPT ![c] = ns]
    /\ IF Validate(ns) # "none"
       THEN /\ pc' = [pc EXCEPT ![c] = "done"]
            /\ outcome' = [outcome EXCEPT ![c] = "ValueError"]
            /\ UNCHANGED << args, running >>
       ELSE /\ pc' = [pc EXCEPT ![c] = "acquire"]
            /\ args' = [args EXCEPT ![c] = ReadArgs(ns)]
            /\ running' = {c}
            /\ UNCHANGED outcome
    /\ UNCHANGED << connected, lockVars, countVars, response, timer, sinceWire >>
    /\ UNCHANGED slotVars
    /\ UNCHANGED decodeVars

\* A caller calls get_multiple(names, slave).
GetMultiple(c, ns, sl) ==
    /\ Call(c, ns, sl, "get_multiple")
    /\ UNCHANGED createVars

\* A caller calls get(name, slave): get_multiple([name], slave), of which it returns the
\* first element.
Get(c, name, sl) ==
    /\ Call(c, << name >>, sl, "get")
    /\ UNCHANGED createVars

\* `async with self._communication_lock`: take the lock or queue for it.
Acquire(c) ==
    /\ running = {c}
    /\ pc[c] = "acquire"
    /\ IF CanLockNow
       THEN /\ locked' = TRUE
            /\ acquired' = [acquired EXCEPT ![c] = @ + 1]
            /\ pc' = [pc EXCEPT ![c] = "do_read"]
            /\ UNCHANGED << waiters, woken, running >>
       ELSE /\ waiters' = Append(waiters, c)
            /\ pc' = [pc EXCEPT ![c] = "waiting"]
            /\ running' = {}
            /\ UNCHANGED << locked, woken, acquired >>
    /\ UNCHANGED << connected, names, args, countVars, response, outcome, timer,
                    sinceWire >>
    /\ UNCHANGED exchanges
    /\ UNCHANGED << api, decodeVars >>
    /\ UNCHANGED slaveVars
    /\ UNCHANGED createVars

\* A waiter whose future completed resumes in acquire() and takes the lock.
Wake(c) ==
    /\ running = {}
    /\ pc[c] = "waiting"
    /\ c \in woken
    /\ waiters' = SelectSeq(waiters, LAMBDA w : w # c)
    /\ woken' = woken \ {c}
    /\ locked' = TRUE
    /\ pc' = [pc EXCEPT ![c] = "do_read"]
    /\ running' = {c}
    /\ UNCHANGED << connected, names, args, countVars, response, outcome, timer,
                    sinceWire >>
    /\ acquired' = [acquired EXCEPT ![c] = @ + 1]
    /\ UNCHANGED exchanges
    /\ UNCHANGED << api, decodeVars >>
    /\ UNCHANGED slaveVars
    /\ UNCHANGED createVars

\* unit=slave or self.slave: the argument if it is truthy, that is neither
\* None nor 0.
unit(arg, default) ==
    IF arg # NoSlave /\ arg # {0} THEN CHOOSE s \in arg : TRUE ELSE default

\* (mutant) a check of the connection made for the first attempt only.
NotConnected_FirstOnly == ~connected /\ \A c \in running : tries[c] = 0

\* (mutant) _do_read without the check of the connection.
NotConnected_Unchecked == FALSE

\* `if not self._client.connected`
NotConnected == ~connected

\* One invocation of _do_read by backoff's retry loop, up to its await.
DoRead(c) ==
    /\ running = {c}
    /\ pc[c] = "do_read"
    /\ tries' = [tries EXCEPT ![c] = @ + 1]
    /\ IF NotConnected
       THEN /\ Raise(c, "ConnectionException")
            /\ UNCHANGED wire
       ELSE /\ wire' = [wire EXCEPT ![c] = Append(@, args[c])]
            /\ pc' = [pc EXCEPT ![c] = "reading"]
            /\ timer' = [timer EXCEPT ![c] = DEFAULT_TIMEOUT]
            /\ running' = {}
            /\ UNCHANGED << lockVars, outcome >>
    /\ UNCHANGED << connected, names, args, timeouts, waits, slept, response,
                    sinceWire >>
    /\ exchanges' = [exchanges EXCEPT ![c] = IF tries[c] = 0 THEN @ + 1 ELSE @]
    /\ UNCHANGED acquired
    /\ UNCHANGED << api, decodeVars >>
    /\ units' = [units EXCEPT ![c] =
                    IF NotConnected THEN @ ELSE Append(@, unit(slaveArg[c], slave))]
    /\ UNCHANGED << slave, slaveArg >>
    /\ UNCHANGED createVars

\* What read_holding_registers can come back with.
Responses == {"registers", "ExceptionResponse", "ModbusConnectionException",
              "TimeoutError"}

\* The transport ends the pending read: with a response or a connection
\* failure at any time, with asyncio.TimeoutError once the timeout has run.
Respond(c, r) ==
    /\ running = {}
    /\ pc[c] = "reading"
    /\ r = "TimeoutError" => timer[c] = 0
    /\ response' = [response EXCEPT ![c] = r]
    /\ timeouts' = [timeouts EXCEPT ![c] = IF r = "TimeoutError" THEN @ + 1 ELSE @]
    /\ timer' = [timer EXCEPT ![c] = 0]
    /\ pc' = [pc EXCEPT ![c] = "resumed"]
    /\ running' = {c}
    /\ sinceWire' = 0
    /\ UNCHANGED << connected, lockVars, names, args, tries, wire, waits, slept,
                    outcome >>
    /\ UNCHANGED slotVars
    /\ UNCHANGED << api, decodeVars >>
    /\ UNCHANGED slaveVars
    /\ UNCHANGED createVars

\* _do_read returns the response (an ExceptionResponse too); _read_registers
\* starts the cooldown sleep inside the lock.
ReturnResponse(c) ==
    /\ running = {c}
    /\ pc[c] = "resumed"
    /\ response[c] \in {"registers", "ExceptionResponse"}
    /\ pc' = [pc EXCEPT ![c] = "cooldown"]
    /\ timer' = [timer EXCEPT ![c] = DEFAULT_COOLDOWN_TIME]
    /\ running' = {}
    /\ UNCHANGED << connected, lockVars, names, args, countVars, response,
                    outcome, sinceWire >>
    /\ UNCHANGED slotVars
    /\ UNCHANGED << api, decodeVars >>
    /\ UNCHANGED slaveVars
    /\ UNCHANGED createVars

\* (mutant) a retry loop that also catches the connection failure.
Retried_AnyError(r) == r \in {"TimeoutError", "ModbusConnectionException"}

\* (mutant) a retry loop that also retries a protocol-level rejection.
Retried_Rejections(r) == r \in {"TimeoutError", "ExceptionResponse"}

\* The exceptions backoff.on_exception retries: (asyncio.TimeoutError).
Retried(r) == r = "TimeoutError"

\* `except ModbusConnectionException`: ReadException, which backoff does not
\* catch.
ConnectionFailed(c) ==
    /\ running = {c}
    /\ pc[c] = "resumed"
    /\ response[c] = "ModbusConnectionException"
    /\ ~Retried(response[c])
    /\ Raise(c, "ReadException")
    /\ UNCHANGED << connected, names, args, countVars, response, sinceWire >>
    /\ UNCHANGED slotVars
    /\ UNCHANGED << api, decodeVars >>
    /\ UNCHANGED slaveVars
    /\ UNCHANGED createVars

\* (mutant) giving up one invocation late.
GiveUp_Late(n) == n > max_tries

\* backoff gives up when the invocation just made was the max_tries-th.
GiveUp(n) == n = max_tries

\* (mutant) a wait that grows with the invocations, as backoff.expo does.
Interval_Growing(n) == DEFAULT_WAIT * n

\* backoff.constant(interval=DEFAULT_WAIT), jitter=None: the wait after the
\* n-th invocation.
Interval(n) == DEFAULT_WAIT

\* (mutant) a retry loop wrapped around `async with`: the lock is given up
\* for the wait between two attempts.
SleepInsideLock_Released == Release

\* The retry loop runs inside `async with self._communication_lock`: the
\* wait between two attempts keeps the lock.
SleepInsideLock == UNCHANGED lockVars

\* backoff catches asyncio.TimeoutError: on_giveup raises ReadException, or
\* it sleeps the constant interval before the next invocation.
TimedOut(c) ==
    /\ running = {c}
    /\ pc[c] = "resumed"
    /\ Retried(response[c])
    /\ IF GiveUp(tries[c])
       THEN /\ Raise(c, "ReadException")
            /\ UNCHANGED << waits, slept >>
       ELSE /\ waits' = [waits EXCEPT ![c] = @ + 1]
            /\ slept' = [slept EXCEPT ![c] = @ + Interval(tries[c])]
            /\ timer' = [timer EXCEPT ![c] = Interval(tries[c])]
            /\ pc' = [pc EXCEPT ![c] = "backoff"]
            /\ running' = {}
            /\ SleepInsideLock
            /\ UNCHANGED outcome
    /\ UNCHANGED << connected, names, args, tries, wire, timeouts, response,
                    sinceWire >>
    /\ UNCHANGED slotVars
    /\ UNCHANGED << api, decodeVars >>
    /\ UNCHANGED slaveVars
    /\ UNCHANGED createVars

\* The backoff sleep is over: the retry loop invokes _do_read again.
BackoffDone(c) ==
    /\ running = {}
    /\ pc[c] = "backoff"
    /\ timer[c] = 0
    /\ pc' = [pc EXCEPT ![c] = "do_read"]
    /\ running' = {c}
    /\ UNCHANGED << connected, lockVars, names, args, countVars, response,
                    outcome, timer, sinceWire >>
    /\ UNCHANGED slotVars
    /\ UNCHANGED << api, decodeVars >>
    /\ UNCHANGED slaveVars
    /\ UNCHANGED createVars

\* response.registers of a successful read of `length` words from `register`.
ResponseRegisters(read) ==
    [i \in 1 .. read.length |-> DeviceWord(read.register + i - 1)]

\* BinaryPayloadDecoder.fromRegisters(registers, byteorder=Endian.Big,
\* wordorder=Endian.Big): each word as two bytes, high byte first.
fromRegisters(regs) ==
    [k \in 1 .. 2 * Len(regs) |->
        IF k % 2 = 1 THEN regs[(k + 1) \div 2] \div 256 ELSE regs[k \div 2] % 256]

\* _decode_response: the unit is None when the definition has no unit
\* or its unit is a callable or a dict.
ResultUnit(reg) ==
    IF reg.unit \in {"absent", "callable", "dict"} THEN "None" ELSE reg.unit

\* reg.decode(decoder, self): consumes reg.length words at the cursor; the
\* value is left as the words read (a byte beyond the payload reads as -1).
decode(reg, payload, pointer) ==
    [w \in 1 .. reg.length |->
        IF pointer + 2 * w <= Len(payload)
        THEN payload[pointer + 2 * w - 1] * 256 + payload[pointer + 2 * w]
        ELSE -1]

\* Result(reg.decode(decoder, self), unit)
Result(reg, payload, pointer) ==
    [value |-> decode(reg, payload, pointer), unit |-> ResultUnit(reg)]

\* (mutant) a skip counted in registers instead of bytes.
skip_bytes_Registers(skip_registers) == skip_registers

\* decoder.skip_bytes(skip_registers * 2)
skip_bytes(skip_registers) == skip_registers * 2

\* skip_registers: the registers between the previous field's end and this
\* field's start.
RegistersBetween(registers, idx) ==
    registers[idx].register
        - (registers[idx - 1].register + registers[idx - 1].length)

\* (mutant) a result list built from the front.
append_Front(list, r) == << r >> \o list

\* result.append(...)
append(list, r) == Append(list, r)

\* The decode loop from field idx on, the cursor at `pointer`: the results
\* and, per field, the bytes skipped and the cursor before and after.
RECURSIVE DecodeFrom(_, _, _, _, _)
DecodeFrom(registers, payload, idx, pointer, acc) ==
    IF idx > Len(registers)
    THEN acc
    ELSE LET skip == IF idx = 1 THEN 0
                     ELSE skip_bytes(RegistersBetween(registers, idx))
             at == pointer + skip
             end == at + 2 * registers[idx].length
         IN  DecodeFrom(registers, payload, idx + 1, end,
                        [result |-> append(acc.result,
                                           Result(registers[idx], payload, at)),
                         trace |-> Append(acc.trace,
                                          [skip |-> skip, at |-> at,
                                           end |-> end])])

\* get_multiple's decoding of the response to the read `read`.
Decoded(ns, read) ==
    DecodeFrom(Resolve(ns), fromRegisters(ResponseRegisters(read)), 1, 0,
               [result |-> << >>, trace |-> << >>])

\* (mutant) get_multiple without the isinstance check of the response.
Outcome_Unchecked(r) == "ok"

\* What get_multiple makes of the value _read_registers returned.
Outcome(r) == IF r = "ExceptionResponse" THEN "ReadException" ELSE "ok"

\* The cooldown sleep is over: _read_registers returns, the lock is
\* released, and get_multiple raises ReadException for an ExceptionResponse
\* or decodes the registers.
CooldownDone(c) ==
    /\ running = {}
    /\ pc[c] = "cooldown"
    /\ timer[c] = 0
    /\ Release
    /\ pc' = [pc EXCEPT ![c] = "done"]
    /\ outcome' = [outcome EXCEPT ![c] = Outcome(response[c])]
    /\ IF Outcome(response[c]) = "ok"
       THEN LET d == Decoded(names[c], args[c])
            IN  /\ result' = [result EXCEPT ![c] = d.result]
                /\ trace' = [trace EXCEPT ![c] = d.trace]
                /\ returned' = [returned EXCEPT ![c] =
                                   IF api[c] = "get" THEN d.result[1]
                                   ELSE d.result]
       ELSE UNCHANGED decodeVars
    /\ UNCHANGED << connected, running, names, args, countVars, response, timer,
                    sinceWire >>
    /\ UNCHANGED slotVars
    /\ UNCHANGED api
    /\ UNCHANGED slaveVars
    /\ UNCHANGED createVars

\* The transport's connection comes or goes.
SetConnected(b) ==
    /\ running = {}
    /\ connected # b
    /\ connected' = b
    /\ UNCHANGED << lockVars, running, pc, names, args, countVars, response,
                    outcome, timer, sinceWire >>
    /\ UNCHANGED slotVars
    /\ UNCHANGED << api, decodeVars >>
    /\ UNCHANGED slaveVars
    /\ UNCHANGED createVars

\* The task of a suspended call is cancelled: CancelledError is raised at its
\* await. A waiter leaves the lock's queue (and passes a wake-up on if the
\* lock is free); a holder leaves `async with`, which releases the lock.
Cancel(c) ==
    /\ running = {}
    /\ pc[c] \in {"waiting", "reading", "backoff", "cooldown"}
    /\ IF pc[c] = "waiting"
       THEN LET rest == SelectSeq(waiters, LAMBDA w : w # c)
            IN  /\ waiters' = rest
                /\ woken' = IF ~locked /\ rest # << >>
                            THEN (woken \ {c}) \cup {Head(rest)}
                            ELSE woken \ {c}
                /\ UNCHANGED locked
       ELSE Release
    /\ pc' = [pc EXCEPT ![c] = "done"]
    /\ outcome' = [outcome EXCEPT ![c] = "CancelledError"]
    /\ timer' = [timer EXCEPT ![c] = 0]
    /\ sinceWire' = IF pc[c] = "reading" THEN 0 ELSE sinceWire
    /\ UNCHANGED << connected, running, names, args, countVars, response >>
    /\ UNCHANGED slotVars
    /\ UNCHANGED << api, decodeVars >>
    /\ UNCHANGED slaveVars
    /\ UNCHANGED createVars

\* The callers whose sleep or timeout is still running.
Pending == {c \in Callers : timer[c] > 0}

\* The time to the next expiry, or one tick when nothing is pending.
Step ==
    IF Pending = {} THEN 1
    ELSE CHOOSE d \in {timer[c] : c \in Pending} : \A c \in Pending : d <= timer[c]

\* Time passes while no task runs, up to the next expiry.
Tick ==
    /\ running = {}
    /\ Pending # {} \/ sinceWire < DEFAULT_COOLDOWN_TIME
    /\ timer' = [c \in Callers |-> IF timer[c] > 0 THEN timer[c] - Step ELSE 0]
    /\ sinceWire' = Min(sinceWire + Step, DEFAULT_COOLDOWN_TIME)
    /\ UNCHANGED << connected, lockVars, running, pc, names, args, countVars,
                    response, outcome >>
    /\ UNCHANGED slotVars
    /\ UNCHANGED << api, decodeVars >>
    /\ UNCHANGED slaveVars
    /\ UNCHANGED createVars

\* The callers are numbered in the order in which they make their calls.
IsNextCaller(c) == \A d \in Callers : d < c => pc[d] # "idle"

Next ==
    \/ \E c \in Callers, ns \in Requests : IsNextCaller(c) /\ GetMultiple(c, ns, NoSlave)
    \/ \E c \in Callers : Acquire(c)
    \/ \E c \in Callers : Wake(c)
    \/ \E c \in Callers : DoRead(c)
    \/ \E c \in Callers, r \in Responses : Respond(c, r)
    \/ \E c \in Callers : ReturnResponse(c)
    \/ \E c \in Callers : ConnectionFailed(c)
    \/ \E c \in Callers : TimedOut(c)
    \/ \E c \in Callers : BackoffDone(c)
    \/ \E c \in Callers : CooldownDone(c)
    \/ \E b \in BOOLEAN : SetConnected(b)
    \/ Tick

Spec == Init /\ [][Next]_vars

\* What the event loop, the clock and the transport do on their own: a
\* ready task runs, a due timer fires, a pending read ends with an answer or
\* with its timeout.
Progress ==
    \/ \E c \in Callers : Acquire(c) \/ Wake(c) \/ DoRead(c)
    \/ \E c \in Callers, r \in Responses : Respond(c, r)
    \/ \E c \in Callers : ReturnResponse(c) \/ ConnectionFailed(c) \/ TimedOut(c)
    \/ \E c \in Callers : BackoffDone(c) \/ CooldownDone(c)
    \/ Tick

\* The session under a fair event loop: what can go on does go on.
SpecFair == Spec /\ WF_vars(Progress)

\* (mutant) an error handler that leaves the client running.
StopsClient_Never == FALSE

\* `if client is not None: await client.stop()`
StopsClient == client # "None"

\* `except Exception as err`: the client, if there is one, is stopped and the
\* error is raised. (Awaiting the value of a stop() that is no coroutine
\* raises TypeError in place of err, after stop() was called.)
CreateFails(err) ==
    /\ stopped' = StopsClient
    /\ createPc' = "failed"
    /\ createError' \in IF StopsClient THEN {err, "TypeError"} ELSE {err}
    /\ UNCHANGED << client, time_zone, battery_type >>
    /\ UNCHANGED << connected, lockVars, running, pc, names, args, countVars,
                    response, outcome, timer, sinceWire, slotVars, api,
                    decodeVars, slaveVars >>

\* create: __get_client returns the client or raises; with the client the
\* session is constructed and get(rn.TIME_ZONE) is called.
CreateConnect(ok) ==
    /\ running = {}
    /\ createPc = "start"
    /\ IF ok
       THEN /\ client' = "client"
            /\ createPc' = "time_zone"
            /\ Call(1, << "time_zone" >>, NoSlave, "get")
            /\ UNCHANGED << stopped, time_zone, battery_type, createError >>
       ELSE CreateFails("ConnectError")

\* get(rn.TIME_ZONE) is over: its value is stored and
\* get(rn.STORAGE_UNIT_1_PRODUCT_MODEL) is called, or its error is handled.
CreateGotTimeZone ==
    /\ running = {}
    /\ createPc = "time_zone"
    /\ pc[1] = "done"
    /\ IF outcome[1] = "ok"
       THEN /\ time_zone' = returned[1].value
            /\ createPc' = "battery_type"
            /\ Call(2, << "storage_unit_1_product_model" >>, NoSlave, "get")
            /\ UNCHANGED << client, stopped, battery_type, createError >>
       ELSE CreateFails(outcome[1])

\* get(rn.STORAGE_UNIT_1_PRODUCT_MODEL) is over: its value is stored and the
\* session returned, or its error is handled.
CreateGotBatteryType ==
    /\ running = {}
    /\ createPc = "battery_type"
    /\ pc[2] = "done"
    /\ IF outcome[2] = "ok"
       THEN /\ battery_type' = returned[2].value
            /\ createPc' = "returned"
            /\ UNCHANGED << client, stopped, time_zone, createError >>
            /\ UNCHANGED << connected, lockVars, running, pc, names, args,
                            countVars, response, outcome, timer, sinceWire,
                            slotVars, api, decodeVars, slaveVars >>
       ELSE CreateFails(outcome[2])

\* create and the two calls it makes.
NextCreate ==
    \/ \E ok \in BOOLEAN : CreateConnect(ok)
    \/ CreateGotTimeZone
    \/ CreateGotBatteryType
    \/ \E c \in Callers : Acquire(c)
    \/ \E c \in Callers : DoRead(c)
    \/ \E c \in Callers, r \in Responses : Respond(c, r)
    \/ \E c \in Callers : ReturnResponse(c)
    \/ \E c \in Callers : ConnectionFailed(c)
    \/ \E c \in Callers : TimedOut(c)
    \/ \E c \in Callers : BackoffDone(c)
    \/ \E c \in Callers : CooldownDone(c)
    \/ \E b \in BOOLEAN : SetConnected(b)
    \/ Tick

SpecCreate == InitCreate /\ [][NextCreate]_vars

\* The session with callers that may abandon their calls.
NextCancel ==
    \/ Next
    \/ \E c \in Callers : Cancel(c)

SpecCancel == Init /\ [][NextCancel]_vars

\* One caller alone, with every list of names: the planner's cases.
NextPlanner ==
    \/ \E ns \in NameLists : GetMultiple(1, ns, NoSlave)
    \/ \E name \in Names : Get(1, name, NoSlave)
    \/ Acquire(1)
    \/ DoRead(1)
    \/ \E r \in Responses : Respond(1, r)
    \/ ReturnResponse(1)
    \/ ConnectionFailed(1)
    \/ TimedOut(1)
    \/ BackoffDone(1)
    \/ CooldownDone(1)
    \/ \E b \in BOOLEAN : SetConnected(b)
    \/ Tick

SpecPlanner == Init /\ [][NextPlanner]_vars

\* One caller of a session with any slave id, the calls with and without a
\* slave argument.
NextSlave ==
    \/ \E ns \in Requests, sl \in SlaveArgs : GetMultiple(1, ns, sl)
    \/ \E name \in Names, sl \in SlaveArgs : Get(1, name, sl)
    \/ Acquire(1)
    \/ DoRead(1)
    \/ \E r \in Responses : Respond(1, r)
    \/ ReturnResponse(1)
    \/ ConnectionFailed(1)
    \/ TimedOut(1)
    \/ BackoffDone(1)
    \/ CooldownDone(1)
    \/ \E b \in BOOLEAN : SetConnected(b)
    \/ Tick

SpecSlave == InitSlave /\ [][NextSlave]_vars

\* ------------------------------------------------------------------ claims

\* The wire reads a call has issued.
Reads(c) == Len(wire[c])

\* C1: at most one wire read is in flight at any time: no caller's read is
\* pending while another caller's read is pending.
C1_SingleFlight ==
    \A c, d \in Callers : pc[c] = "reading" /\ pc[d] = "reading" => c = d

\* C1 witness: a read is in flight while another caller waits for the lock.
C1_Witness ==
    \E c, d \in Callers : pc[c] = "reading" /\ pc[d] = "waiting"

\* C2 (as claimed): the lock is free only when a full cooldown has passed
\* since a wire read last ended, and a call's first wire read is issued only
\* then, whether the exchange before it succeeded or failed.
C2_ReleasedAfterCooldown ==
    /\ ~locked => sinceWire >= DEFAULT_COOLDOWN_TIME
    /\ \A c \in Callers :
          pc[c] = "reading" /\ tries[c] = 1 /\ timer[c] = DEFAULT_TIMEOUT
              => sinceWire >= DEFAULT_COOLDOWN_TIME

\* Every name of the list is in the table.
AllResolved(ns) == \A i \in 1 .. Len(ns) : ns[i] \in DOMAIN REGISTERS

\* Some neighbours of the list lie more than 64 words apart.
HasLargeGap(ns) ==
    \E i \in 2 .. Len(ns) :
        REGISTERS[ns[i]].register
            - (REGISTERS[ns[i - 1]].register + REGISTERS[ns[i - 1]].length) > 64

\* Some neighbours of the list overlap, repeat or go backwards.
HasOverlap(ns) ==
    \E i \in 2 .. Len(ns) :
        REGISTERS[ns[i - 1]].register + REGISTERS[ns[i - 1]].length
            > REGISTERS[ns[i]].register

\* C3 (as claimed): a list with a gap of more than 64 words between two
\* neighbours never reaches the wire and ends in ValueError.
C3_LargeGapRejected ==
    \A c \in Callers :
        pc[c] # "idle" /\ AllResolved(names[c]) /\ HasLargeGap(names[c])
            => /\ wire[c] = << >>
               /\ pc[c] = "done" => outcome[c] = "ValueError"

\* C4: a list in which some neighbours overlap, repeat or go backwards ends
\* in ValueError at once, and no wire read is issued for it.
C4_OverlapRejected ==
    \A c \in Callers :
        pc[c] # "idle" /\ AllResolved(names[c]) /\ HasOverlap(names[c])
            => /\ pc[c] = "done"
               /\ outcome[c] = "ValueError"
               /\ wire[c] = << >>
               /\ tries[c] = 0

\* C4 witness: the reversed [B, A] or the overlapping [B, C] was rejected.
C4_Witness ==
    /\ pc[1] = "done"
    /\ names[1] \in {<< "B", "A" >>, << "B", "C" >>}
    /\ outcome[1] = "ValueError"

C6_SuccessAfterTimeouts ==
    \A c \in Callers :
        pc[c] = "done" /\ response[c] = "registers"
            => /\ outcome[c] = "ok"
               /\ timeouts[c] <= 4
               /\ tries[c] = timeouts[c] + 1
               /\ Reads(c) = timeouts[c] + 1
               /\ waits[c] = timeouts[c]
               /\ slept[c] = timeouts[c] * DEFAULT_WAIT

\* C6 witness: success on the third attempt after two timeouts and two waits.
C6_Witness ==
    \E c \in Callers :
        /\ pc[c] = "done"
        /\ outcome[c] = "ok"
        /\ timeouts[c] = 2
        /\ Reads(c) = 3
        /\ slept[c] = 2 * DEFAULT_WAIT

\* C7: once the transport answered with an ExceptionResponse the call issues
\* no further wire read and starts no backoff wait (it only cools down and
\* ends), and it ends in ReadException.
C7_ExceptionResponseNotRetried ==
    \A c \in Callers :
        response[c] = "ExceptionResponse"
            => /\ pc[c] \in {"resumed", "cooldown", "done"}
               /\ Reads(c) = timeouts[c] + 1
               /\ waits[c] = timeouts[c]
               /\ pc[c] = "done" => outcome[c] = "ReadException"

\* C7 witness: a call ended in ReadException on an ExceptionResponse.
C7_Witness ==
    \E c \in Callers :
        /\ pc[c] = "done"
        /\ response[c] = "ExceptionResponse"
        /\ outcome[c] = "ReadException"

\* C8: a call that finds the transport not connected at its first attempt
\* ends there in ConnectionException, with no wire read and no backoff wait.
C8_NotConnectedFailsAtOnce ==
    [][\A c \in Callers :
          pc[c] = "do_read" /\ tries[c] = 0 /\ ~connected /\ pc'[c] # pc[c]
              => /\ pc'[c] = "done"
                 /\ outcome'[c] = "ConnectionException"
                 /\ wire'[c] = << >>
                 /\ waits'[c] = 0
                 /\ slept'[c] = 0
                 /\ timeouts'[c] = 0]_vars

\* C8 witness: a call ended in ConnectionException at its first attempt.
C8_Witness ==
    \E c \in Callers :
        /\ pc[c] = "done"
        /\ outcome[c] = "ConnectionException"
        /\ tries[c] = 1
        /\ wire[c] = << >>

\* C9: once a wire read raised a connection failure the call issues no
\* further wire read and starts no backoff wait, however many timeouts came
\* before, and it ends in ReadException.
C9_ConnectionFailureNotRetried ==
    \A c \in Callers :
        response[c] = "ModbusConnectionException"
            => /\ pc[c] \in {"resumed", "done"}
               /\ Reads(c) = timeouts[c] + 1
               /\ waits[c] = timeouts[c]
               /\ pc[c] = "done" => outcome[c] = "ReadException"

\* C9 witness: a connection failure on the third attempt, after two timeouts.
C9_Witness ==
    \E c \in Callers :
        /\ pc[c] = "done"
        /\ response[c] = "ModbusConnectionException"
        /\ timeouts[c] = 2
        /\ outcome[c] = "ReadException"

\* The one read the specification expects for an accepted list.
ExpectedRead(ns) ==
    [register |-> REGISTERS[ns[1]].register,
     length   |-> REGISTERS[ns[Len(ns)]].register + REGISTERS[ns[Len(ns)]].length
                      - REGISTERS[ns[1]].register]

\* The call got past the checks of get_multiple.
Accepted(c) == pc[c] # "idle" /\ ~(pc[c] = "done" /\ outcome[c] = "ValueError")

\* C10 (as claimed): an accepted call that ended without a timeout issued
\* exactly one wire read, from the first register over total_length words.
C10_ExactlyOneRead ==
    \A c \in Callers :
        Accepted(c) /\ pc[c] = "done" /\ timeouts[c] = 0
            => wire[c] = << ExpectedRead(names[c]) >>

\* C10 (amended): every wire read of an accepted call starts at the first
\* register and spans total_length words, and a call that ended without a
\* timeout and did not find the transport disconnected issued exactly one.
C10_OneReadWhenConnected ==
    \A c \in Callers :
        Accepted(c)
            => /\ \A i \in 1 .. Reads(c) : wire[c][i] = ExpectedRead(names[c])
               /\ pc[c] = "done" /\ timeouts[c] = 0
                      /\ outcome[c] # "ConnectionException"
                      => wire[c] = << ExpectedRead(names[c]) >>

\* C10 witness: [A, B] was read in one read of 3 words from register 0.
C10_Witness ==
    /\ pc[1] = "done"
    /\ names[1] = << "A", "B" >>
    /\ timeouts[1] = 0
    /\ wire[1] = << [register |-> 0, length |-> 3] >>


\* The list is empty or holds a name the table does not resolve.
Unusable(ns) == ns = << >> \/ ~AllResolved(ns)

\* C11: a call with an empty list or an unresolvable name ends in ValueError
\* in the step that makes it, whoever holds the lock: it never queues for the
\* lock, leaves the lock as it was and issues no wire read.
C11_UnusableRejectedBeforeLock ==
    /\ [](\A c \in Callers :
            pc[c] # "idle" /\ Unusable(names[c])
                => /\ pc[c] = "done"
                   /\ outcome[c] = "ValueError"
                   /\ wire[c] = << >>
                   /\ tries[c] = 0)
    /\ [][\A c \in Callers :
            pc[c] = "idle" /\ pc'[c] # "idle" /\ Unusable(names'[c])
                => /\ pc'[c] = "done"
                   /\ outcome'[c] = "ValueError"
                   /\ UNCHANGED << locked, waiters, woken, wire >>]_vars

\* C11 witness: the empty list and an unknown name were rejected while
\* another caller holds the lock with its read in flight.
C11_Witness ==
    \E c, d \in Callers :
        /\ pc[c] = "done"
        /\ names[c] = << "X" >>
        /\ outcome[c] = "ValueError"
        /\ pc[d] = "reading"
        /\ locked


\* The caller is inside `async with self._communication_lock`.
InSlot(c) == pc[c] \in {"do_read", "reading", "resumed", "backoff", "cooldown"}

RECURSIVE TotalReads(_)
\* The wire reads the transport has seen from the callers 1 .. n.
TotalReads(n) == IF n = 0 THEN 0 ELSE Reads(n) + TotalReads(n - 1)

\* C12 (as claimed): every finished accepted call took the lock exactly once
\* and invoked the wire reader exactly once, and issued exactly one wire read
\* if none of its attempts timed out; N such calls make N wire reads.
C12_OneExchangePerCaller ==
    /\ \A c \in Callers :
          Accepted(c) /\ pc[c] = "done"
              => /\ acquired[c] = 1
                 /\ exchanges[c] = 1
                 /\ timeouts[c] = 0 => Reads(c) = 1
    /\ (\A c \in Callers : Accepted(c) /\ pc[c] = "done" /\ timeouts[c] = 0)
          => TotalReads(NumCallers) = NumCallers

\* C12 (amended): a caller takes the lock at most once and invokes the wire
\* reader only inside it; every finished accepted call took the lock exactly
\* once and invoked the wire reader exactly once, and issued exactly one wire
\* read if none of its attempts timed out and it did not find the transport
\* disconnected; N such calls make N wire reads.
C12_OneExchangeWhenConnected ==
    /\ \A c \in Callers :
          /\ acquired[c] <= 1
          /\ exchanges[c] <= acquired[c]
          /\ InSlot(c) => locked /\ acquired[c] = 1
          /\ Accepted(c) /\ pc[c] = "done"
              => /\ acquired[c] = 1
                 /\ exchanges[c] = 1
                 /\ timeouts[c] = 0 /\ outcome[c] # "ConnectionException"
                        => Reads(c) = 1
    /\ (\A c \in Callers :
            /\ Accepted(c) /\ pc[c] = "done" /\ timeouts[c] = 0
            /\ outcome[c] # "ConnectionException")
          => TotalReads(NumCallers) = NumCallers

\* C12 witness: every caller finished an accepted call without a timeout and
\* the transport has seen one read of each.
C12_Witness ==
    /\ \A c \in Callers :
          /\ pc[c] = "done"
          /\ names[c] = << "A", "B" >>
          /\ timeouts[c] = 0
          /\ acquired[c] = 1
          /\ Reads(c) = 1
    /\ \E c \in Callers : outcome[c] = "ok"


\* C13: a caller waiting for the lock eventually takes it under the fair
\* event loop, whatever the exchanges ahead of it end in; the lock is never
\* left held by a call that has ended; and waiters are admitted in the order
\* in which they started to wait.
C13_WaitersAdmittedInOrder ==
    /\ \A c \in Callers : (pc[c] = "waiting") ~> (acquired[c] = 1)
    /\ [](locked => \E c \in Callers : InSlot(c))
    /\ [][\A c \in Callers :
            pc[c] = "waiting" /\ pc'[c] # "waiting" => c = Head(waiters)]_vars

\* C13 witness: a caller that waited holds the lock after the exchange ahead
\* of it ended in ReadException, while a caller that queued later still waits.
C13_Witness ==
    \E b, c, d \in Callers :
        /\ pc[b] = "done" /\ outcome[b] = "ReadException"
        /\ InSlot(c) /\ acquired[c] = 1 /\ tries[c] > 0
        /\ pc[d] = "waiting"
        /\ b # c /\ c # d /\ b # d


\* The value and unit of the field a name stands for, read off the device.
FieldResult(name) ==
    [value |-> [w \in 1 .. REGISTERS[name].length |->
                   DeviceWord(REGISTERS[name].register + w - 1)],
     unit |-> CASE name = "A" -> "W"
                [] name = "time_zone" -> "min"
                [] OTHER -> "None"]

\* C14: a successful get_multiple returns one Result per requested name, the
\* i-th Result being the decoded field of the i-th name; a successful get
\* returns the single Result get_multiple built for its one name.
C14_ResultsInRequestOrder ==
    \A c \in Callers :
        pc[c] = "done" /\ outcome[c] = "ok" =>
            /\ Len(result[c]) = Len(names[c])
            /\ \A i \in 1 .. Len(names[c]) :
                   result[c][i] = FieldResult(names[c][i])
            /\ api[c] = "get_multiple" => returned[c] = result[c]
            /\ api[c] = "get" =>
                   Len(names[c]) = 1 /\ returned[c] = FieldResult(names[c][1])

C14_Witness ==
    \E c \in Callers :
        /\ pc[c] = "done" /\ outcome[c] = "ok"
        /\ api[c] = "get_multiple" /\ names[c] = << "A", "D" >>
        /\ returned[c][2].value = << DeviceWord(68) >>


\* C15: over a successful decode the cursor only moves forward: field i is
\* decoded at byte (offset of field i - offset of the first field) * 2, every
\* skip is non-negative, and after the last field the cursor stands at
\* totalLength * 2, the end of the payload.
C15_CursorMovesForward ==
    \A c \in Callers :
        pc[c] = "done" /\ outcome[c] = "ok" =>
            LET registers == Resolve(names[c])
                n == Len(registers)
            IN  /\ Len(trace[c]) = n
                /\ \A i \in 1 .. n :
                       /\ trace[c][i].skip >= 0
                       /\ trace[c][i].at =
                              (registers[i].register - registers[1].register) * 2
                       /\ trace[c][i].at <= trace[c][i].end
                       /\ i > 1 => trace[c][i - 1].end <= trace[c][i].at
                /\ trace[c][n].end = args[c].length * 2
                /\ trace[c][n].end = 2 * Len(ResponseRegisters(wire[c][Len(wire[c])]))

C15_Witness ==
    \E c \in Callers :
        /\ pc[c] = "done" /\ outcome[c] = "ok"
        /\ Len(trace[c]) = MaxNames
        /\ trace[c][MaxNames].skip > 0


\* A caller between its first wire read and the end of its last attempt.
MidExchange(c) ==
    wire[c] # << >> /\ pc[c] \in {"reading", "resumed", "backoff", "do_read"}

\* C17: from a caller's first wire read to the end of its last attempt, every
\* backoff wait included, the lock stays held, no other caller is inside it
\* and no other caller's wire read is issued.
C17_SlotHeldAcrossAttempts ==
    /\ [](\A c \in Callers :
             MidExchange(c) => locked /\ \A d \in Callers \ {c} : ~InSlot(d))
    /\ [][\A c \in Callers : \A d \in Callers \ {c} :
             MidExchange(c) => wire'[d] = wire[d]]_vars

C17_Witness ==
    \E c \in Callers : \E d \in Callers \ {c} :
        /\ pc[c] = "backoff" /\ timeouts[c] = 2 /\ timer[c] = 0
        /\ pc[d] = "waiting"
        /\ locked


\* C19: every attempt, the first and each retry, begins with the check of the
\* connection: no wire read is issued while the transport reports not
\* connected, and an attempt that finds it not connected ends the call with
\* ConnectionException, with no wire read and no backoff wait, however many
\* timeouts went before.
C19_ConnectedCheckedEachAttempt ==
    [][\A c \in Callers :
          /\ wire'[c] # wire[c] => connected
          /\ tries'[c] # tries[c] /\ ~connected =>
                 /\ pc'[c] = "done"
                 /\ outcome'[c] = "ConnectionException"
                 /\ wire'[c] = wire[c]
                 /\ waits'[c] = waits[c]
                 /\ timer'[c] = 0]_vars

C19_Witness ==
    \E c \in Callers :
        /\ pc[c] = "done"
        /\ outcome[c] = "ConnectionException"
        /\ timeouts[c] = 2 /\ tries[c] = 3 /\ Reads(c) = 2


\* C18 (as claimed): the unit sent with every wire read is the slave
\* argument of the call when the caller gave one, 0 included, and the
\* session's slave id only when the caller gave none.
C18_SlaveArgumentSent ==
    \A c \in Callers : \A i \in 1 .. Len(units[c]) :
        units[c][i] = IF slaveArg[c] = NoSlave THEN slave
                      ELSE CHOOSE s \in slaveArg[c] : TRUE


\* C16 (as claimed): a call cancelled during its wire read, a backoff wait or
\* the cooldown does not release the lock by being cancelled: the lock stays
\* held until the exchange and the cooldown have completed.
C16_CancelledKeepsSlot ==
    [][\A c \in Callers :
          /\ pc[c] \in {"reading", "backoff", "cooldown"}
          /\ outcome'[c] = "CancelledError"
          => locked']_vars


\* C20: create reads the time zone and then the battery type, each in an
\* exchange of its own, the second begun only after the first succeeded; it
\* returns the session only after both succeeded, and when it fails with a
\* client at hand, as it does when either read fails, the client's stop was
\* called and no session is returned.
C20_CreateReadsThenReturnsOrStops ==
    /\ \A i \in 1 .. Len(wire[1]) : wire[1][i] = ExpectedRead(<< "time_zone" >>)
    /\ \A i \in 1 .. Len(wire[2]) :
           wire[2][i] = ExpectedRead(<< "storage_unit_1_product_model" >>)
    /\ pc[2] # "idle" =>
           /\ pc[1] = "done" /\ outcome[1] = "ok"
           /\ time_zone = FieldResult("time_zone").value
    /\ createPc = "returned" =>
           /\ pc[2] = "done" /\ outcome[2] = "ok"
           /\ Reads(1) >= 1 /\ Reads(2) >= 1
           /\ battery_type = FieldResult("storage_unit_1_product_model").value
           /\ ~stopped /\ createError = "none"
    /\ \A c \in {1, 2} :
           pc[c] = "done" /\ outcome[c] # "ok" => createPc # "returned"
    /\ createPc = "failed" =>
           /\ createError # "none"
           /\ client # "None" =>
                  /\ stopped
                  /\ \E c \in {1, 2} : pc[c] = "done" /\ outcome[c] # "ok"

C20_Witness ==
    /\ createPc = "failed"
    /\ stopped
    /\ outcome[1] = "ok"
    /\ outcome[2] = "ReadException" /\ timeouts[2] = max_tries

====
